---- MODULE Spec2Model ----
(***************************************************************************)
(* Model of the memory service (ai4u_memory): scope keys, the salience     *)
(* ranker, the chat-completions shim and the ingestion gateway.            *)
(*                                                                         *)
(* Text is modelled as a sequence of one-character strings.  An optional   *)
(* value (Python None or a value) is a record [is_none, value].            *)
(***************************************************************************)
EXTENDS Integers, Sequences, FiniteSets, TLC

VARIABLES
    \* ---- scope keys: one caller ingesting and then reading back
    scope_pc,       \* "idle" | "ingested" | "recalled"
    user_id,        \* the caller's user_id
    agent_id,       \* the caller's optional agent_id
    group_id,       \* the label ingest computed (_build_group_id)
    group_ids,      \* the labels recall computed (_build_group_ids)
    \* ---- the graph as the external store sees it
    graph,          \* set of nodes [group_id, user_id, agent_id]
    last_op,        \* "none" | "ingested" | "deleted" | "delete_failed"
    del_user,       \* user_id of the last delete_entities request
    del_agent,      \* its optional agent_id
    deleted_scope,  \* the deleted_scope it reported
    graph_before,   \* the graph when it arrived
    \* ---- the salience ranker: one call of rank_by_salience
    rank_pc,        \* "idle" | "done"
    edges,          \* the caller's list of edge dicts
    min_salience,   \* the optional threshold
    ranked,         \* the list the call returned
    lists,          \* the list objects after the call; the caller's is 1
    ranked_ref,     \* the list object the call returned
    \* ---- the chat-completions shim: one structured completion
    shim_pc,        \* "idle" | "awaiting" | "returned" | "raised"
    response_model, \* the target schema of the call
    reply,          \* response.choices[0].message.content (optional text)
    content,        \* the text handed to model_validate_json
    output_text,    \* _StructuredResponse.output_text
    shim_error,     \* "none" | "validation" | "transport"
    shim_op,        \* "structured" | "complete": the method called
    caller_messages, \* messages, as the caller passed them
    transport_calls, \* the chat.completions.create calls made
    msg_objects,    \* the message dicts and the lists that hold them
    \* ---- the ingestion gateway: one bulk and one single request
    graphiti_ready, \* app.state.graphiti is not None
    now,            \* the clock datetime.now(timezone.utc) reads, in seconds
    bulk_pc,        \* "idle" | "awaiting" | "done" | "rejected"
    bulk_body,      \* body.episodes of the bulk request
    bulk_started,   \* how many add_episode calls the loop has issued
    bulk_results,   \* results
    bulk_response,  \* the response to the bulk request
    ingest_pc,      \* "idle" | "awaiting" | "done" | "rejected"
    ingest_body,    \* the body of the single request
    ingest_started_at, \* the clock when ingest handled it
    ingest_response,   \* the response to the single request
    in_flight,      \* the add_episode calls awaited: [req, k, name]
    finished,       \* the add_episode calls that ended, with how
    pipeline_calls, \* what add_episode was called with, in call order
    \* ---- the API key middleware: one request
    api_key,        \* APIKeyMiddleware.api_key
    auth_pc,        \* "idle" | "rejected" | "forwarded" | "answered"
    req_path,       \* request.url.path
    req_key,        \* the optional X-API-Key header
    auth_response,  \* the response to the request
    handler_reached, \* the application behind the middleware was called
    \* ---- the handlers of routers/recall.py, one request each
    gw_pc,          \* per handler: "idle" | "awaiting" | "done" | "rejected"
    gw_response,    \* per handler: the response
    gw_outcome,     \* per handler: "none" | "returned" | the message raised
    gw_called,      \* the handlers that made their external call
    \* ---- the entity templates: one construction
    ent_pc,         \* "idle" | "constructed" | "validation_error"
    ent_model,      \* the template
    ent_kwargs,     \* the keyword arguments, a set of <<field, value>>
    ent_instance,    \* the instance, a set of <<field, value>>
    \* ---- the recall handler: one request
    recall_pc,      \* "idle" | "awaiting" | "done"
    recall_limit,   \* body.limit
    recall_min_salience, \* body.min_salience
    search_result,  \* what graphiti.search returned
    recall_edges,   \* "edges" of the response
    \* ---- the lifespan of the application
    life_pc,        \* "off" | "creating" | "serving" | "stopped" | "startup_failed"
    clients_created, \* the Graphiti objects constructed
    clients_closed  \* the calls of graphiti.close()

scopeVars == <<scope_pc, user_id, agent_id, group_id, group_ids>>
tenantVars == <<graph, last_op, del_user, del_agent, deleted_scope, graph_before>>
rankVars == <<rank_pc, edges, min_salience, ranked, lists, ranked_ref>>
shimVars ==
    <<shim_pc, response_model, reply, content, output_text, shim_error,
      shim_op, caller_messages, transport_calls, msg_objects>>
bulkVars == <<bulk_pc, bulk_body, bulk_started, bulk_results, bulk_response>>
singleVars == <<ingest_pc, ingest_body, ingest_started_at, ingest_response>>
pipelineVars == <<in_flight, finished, pipeline_calls>>
ingestVars == <<graphiti_ready, now, bulkVars, singleVars, pipelineVars>>
authVars == <<api_key, auth_pc, req_path, req_key, auth_response, handler_reached>>
gatewayVars == <<gw_pc, gw_response, gw_outcome, gw_called>>
entityVars == <<ent_pc, ent_model, ent_kwargs, ent_instance>>
recallVars == <<recall_pc, recall_limit, recall_min_salience, search_result, recall_edges>>
lifeVars == <<life_pc, clients_created, clients_closed>>

\* All the variables but those of one part.
exceptScope ==
    <<tenantVars, rankVars, shimVars, ingestVars,
      authVars, gatewayVars, entityVars, recallVars, lifeVars>>
exceptTenant ==
    <<scopeVars, rankVars, shimVars, ingestVars,
      authVars, gatewayVars, entityVars, recallVars, lifeVars>>
exceptRank ==
    <<scopeVars, tenantVars, shimVars, ingestVars,
      authVars, gatewayVars, entityVars, recallVars, lifeVars>>
exceptShim ==
    <<scopeVars, tenantVars, rankVars, ingestVars,
      authVars, gatewayVars, entityVars, recallVars, lifeVars>>
exceptAuth ==
    <<scopeVars, tenantVars, rankVars, shimVars,
      ingestVars, gatewayVars, entityVars, recallVars, lifeVars>>
exceptGateway ==
    <<scopeVars, tenantVars, rankVars, shimVars,
      ingestVars, authVars, entityVars, recallVars, lifeVars>>
exceptEntity ==
    <<scopeVars, tenantVars, rankVars, shimVars,
      ingestVars, authVars, gatewayVars, recallVars, lifeVars>>
exceptRecall ==
    <<scopeVars, tenantVars, rankVars, shimVars,
      ingestVars, authVars, gatewayVars, entityVars, lifeVars>>
\* All but app.state.graphiti and the lifespan.
exceptLife ==
    <<scopeVars, tenantVars, rankVars, shimVars, now, bulkVars, singleVars,
      pipelineVars, authVars, gatewayVars, entityVars, recallVars>>
nonIngestVars ==
    <<scopeVars, tenantVars, rankVars, shimVars,
      authVars, gatewayVars, entityVars, recallVars, lifeVars>>

----------------------------------------------------------------------------
(* Optional values *)

None == [is_none |-> TRUE, value |-> <<>>]
Some(v) == [is_none |-> FALSE, value |-> v]

\* The same for an Optional[int].
NoInt == [is_none |-> TRUE, value |-> 0]
SomeInt(n) == [is_none |-> FALSE, value |-> n]

\* The same for an Optional[str] that is read as a whole.
NoStr == [is_none |-> TRUE, value |-> ""]
SomeStr(str) == [is_none |-> FALSE, value |-> str]

\* Python truthiness of an Optional[str]: None and "" are falsy.
Truthy(opt) == ~opt.is_none /\ opt.value # <<>>

SeqsUpTo(S, n) == UNION {[1..k -> S] : k \in 0..n}

----------------------------------------------------------------------------
(* Scope keys: routers/ingest.py and routers/recall.py *)

LowerCase ==
    {"a","b","c","d","e","f","g","h","i","j","k","l","m",
     "n","o","p","q","r","s","t","u","v","w","x","y","z"}
UpperCase ==
    {"A","B","C","D","E","F","G","H","I","J","K","L","M",
     "N","O","P","Q","R","S","T","U","V","W","X","Y","Z"}
Digits == {"0","1","2","3","4","5","6","7","8","9"}

\* The complement of the character class [^a-zA-Z0-9_-].
SanitizeKeeps == LowerCase \cup UpperCase \cup Digits \cup {"_", "-"}

\* A sanitizer whose class forgets the dash: re.sub(r"[^a-zA-Z0-9_]", ...).
SanitizeNoDash(value) ==
    [i \in 1..Len(value) |->
        IF value[i] \in (SanitizeKeeps \ {"-"}) THEN value[i] ELSE "_"]

\* re.sub(r"[^a-zA-Z0-9_-]", "_", value)
_sanitize_id(value) ==
    [i \in 1..Len(value) |-> IF value[i] \in SanitizeKeeps THEN value[i] ELSE "_"]

\* f"{uid}_{_sanitize_id(agent_id)}" when agent_id is truthy, else uid
_build_group_id(uid, aid) ==
    IF Truthy(aid)
    THEN _sanitize_id(uid) \o <<"_">> \o _sanitize_id(aid.value)
    ELSE _sanitize_id(uid)

\* [user_id] or [user_id, f"{user_id}:{agent_id}"]
_build_group_ids(uid, aid) ==
    IF Truthy(aid)
    THEN <<uid, uid \o <<":">> \o aid.value>>
    ELSE <<uid>>

\* Bounds and the identifiers drawn within them.
MaxUserLen == 3
MaxAgentLen == 1
IdChars == {"a", "7", "_", "-", "/", ":"}
UserIds == SeqsUpTo(IdChars, MaxUserLen)
AgentIds == {None} \cup {Some(s) : s \in SeqsUpTo(IdChars, MaxAgentLen)}

ScopeIdle ==
    /\ scope_pc = "idle"
    /\ user_id = <<>>
    /\ agent_id = None
    /\ group_id = <<>>
    /\ group_ids = <<>>

\* ingest: group_id = _build_group_id(body.user_id, body.agent_id)
IngestScope(u, a) ==
    /\ scope_pc = "idle"
    /\ user_id' = u
    /\ agent_id' = a
    /\ group_id' = _build_group_id(u, a)
    /\ scope_pc' = "ingested"
    /\ UNCHANGED <<group_ids, exceptScope>>

\* recall / list_entities / list_episodes by the same caller:
\* group_ids = _build_group_ids(body.user_id, body.agent_id)
RecallScope ==
    /\ scope_pc = "ingested"
    /\ group_ids' = _build_group_ids(user_id, agent_id)
    /\ scope_pc' = "recalled"
    /\ UNCHANGED <<user_id, agent_id, group_id, exceptScope>>

----------------------------------------------------------------------------
(* The graph partitioned by group_id: what add_episode stores *)

MaxTenantUserLen == 3
MaxTenantAgentLen == 1
MaxNodes == 2
TenantChars == {"a", "_"}
\* Tenants have non-empty identifiers; the agent is optional.
TenantUserIds == SeqsUpTo(TenantChars, MaxTenantUserLen) \ {<<>>}
TenantAgentIds ==
    {None} \cup {Some(s) : s \in SeqsUpTo(TenantChars, MaxTenantAgentLen) \ {<<>>}}

TenantIdle ==
    /\ graph = {}
    /\ last_op = "none"
    /\ del_user = <<>>
    /\ del_agent = None
    /\ deleted_scope = <<>>
    /\ graph_before = {}

\* ingest for (u, a): add_episode(..., group_id=_build_group_id(u, a)) stores
\* the episode's nodes under that label.
IngestTenant(u, a) ==
    /\ Cardinality(graph) < MaxNodes
    /\ graph' = graph \cup
          {[group_id |-> _build_group_id(u, a), user_id |-> u, agent_id |-> a]}
    /\ last_op' = "ingested"
    /\ UNCHANGED <<del_user, del_agent, deleted_scope, graph_before>>
    /\ UNCHANGED <<exceptTenant>>

\* The callers that clear their scopes.
ClearUserIds == {<<"a">>, <<"b">>, <<"a", "/">>}
ClearAgentIds == {None, Some(<<"b">>)}

\* A delete that clears the label ingest writes.
DeleteByIngestLabel(u, a) == _build_group_id(u, a)

\* delete_entities: group_id = user_id; if agent_id:
\* group_id = f"{user_id}:{agent_id}"
delete_group_id(u, a) == IF Truthy(a) THEN u \o <<":">> \o a.value ELSE u

\* DELETE /v1/entities for (u, a): MATCH (n {group_id: $group_id}) DETACH
\* DELETE n, then {"status": "ok", "deleted_scope": group_id}.
DeleteTenant(u, a) ==
    /\ del_user' = u
    /\ del_agent' = a
    /\ graph_before' = graph
    /\ graph' = {n \in graph : n.group_id # delete_group_id(u, a)}
    /\ deleted_scope' = delete_group_id(u, a)
    /\ last_op' = "deleted"
    /\ UNCHANGED <<exceptTenant>>

\* The query raises: HTTP 500, and the graph is as it was.
DeleteFails(u, a) ==
    /\ del_user' = u
    /\ del_agent' = a
    /\ graph_before' = graph
    /\ deleted_scope' = <<>>
    /\ last_op' = "delete_failed"
    /\ UNCHANGED <<graph, exceptTenant>>

----------------------------------------------------------------------------
(* The salience ranker: utils/salience.py *)

\* dict.get(key, default) on an edge dict (a function from its keys).
Get(e, key, default) == IF key \in DOMAIN e THEN e[key] ELSE default

\* The default of the inner get in e.get("salience", e.get("score", 5)).
DefaultImportance == 5

\* A fallback chain in the wrong order: e.get("score", e.get("salience", 5)).
ImportanceScoreFirst(e) == Get(e, "score", Get(e, "salience", DefaultImportance))

\* e.get("salience", e.get("score", 5))
effective_importance(e) == Get(e, "salience", Get(e, "score", DefaultImportance))

\* The sort key: e.get("score", 0)
score_key(e) == Get(e, "score", 0)

\* [e for e in edges if e.get("salience", e.get("score", 5)) >= min_salience]
filter_edges(es, m) == SelectSeq(es, LAMBDA e : effective_importance(e) >= m)

\* Where a stable descending sort puts e in the sorted prefix acc: after
\* every element whose key is >= its own.
InsertStable(acc, e) ==
    LET p == Cardinality({i \in 1..Len(acc) : score_key(acc[i]) >= score_key(e)})
    IN  SubSeq(acc, 1, p) \o <<e>> \o SubSeq(acc, p + 1, Len(acc))

\* The same with e put before the elements of equal key.
InsertBeforeTies(acc, e) ==
    LET p == Cardinality({i \in 1..Len(acc) : score_key(acc[i]) > score_key(e)})
    IN  SubSeq(acc, 1, p) \o <<e>> \o SubSeq(acc, p + 1, Len(acc))

RECURSIVE SortFrom(_, _, _)
SortFrom(es, k, acc) ==
    IF k > Len(es) THEN acc ELSE SortFrom(es, k + 1, InsertStable(acc, es[k]))

RECURSIVE SortTiesReversedFrom(_, _, _)
SortTiesReversedFrom(es, k, acc) ==
    IF k > Len(es) THEN acc
    ELSE SortTiesReversedFrom(es, k + 1, InsertBeforeTies(acc, es[k]))

\* An ascending sort read backwards, sorted(edges, key=...)[::-1]: equal
\* scores come out in reverse input order.
SortedTiesReversed(es) == SortTiesReversedFrom(es, 1, <<>>)

\* sorted(edges, key=lambda e: e.get("score", 0), reverse=True): Python's
\* sort is stable, also with reverse=True.
sorted_by_score_desc(es) == SortFrom(es, 1, <<>>)

rank_by_salience(es, m) ==
    sorted_by_score_desc(IF ~m.is_none THEN filter_edges(es, m.value) ELSE es)

\* A ranking that filters and sorts the caller's list where it is.
RankInPlace(es, m) ==
    [lists |-> <<rank_by_salience(es, m)>>, result |-> 1]

\* The list objects of one call.  The caller's list is object 1; the
\* comprehension `edges = [e for e in edges if ...]` makes a new list and
\* rebinds the local name, sorted(...) makes another and it is returned.
\* The dicts are put into the new lists as they are.
rank_lists(es, m) ==
    LET filtered == IF ~m.is_none THEN <<es, filter_edges(es, m.value)>> ELSE <<es>>
        out == Append(filtered, sorted_by_score_desc(filtered[Len(filtered)]))
    IN  [lists |-> out, result |-> Len(out)]

\* Bounds and the edge lists drawn within them.  The edge at position i has
\* uuid i; score and salience are optional keys.
MaxEdges == 3
ScoreSample == {0, 4, 7}
SalienceSample == {3, 9}
MinSalienceSample == {NoInt, SomeInt(5), SomeInt(6)}

EdgesAt(i) ==
    {[uuid |-> i]}
    \cup {[uuid |-> i, score |-> sc] : sc \in ScoreSample}
    \cup {[uuid |-> i, salience |-> sa] : sa \in SalienceSample}
    \cup {[uuid |-> i, score |-> sc, salience |-> sa] :
            sc \in ScoreSample, sa \in SalienceSample}

EdgeLists ==
    UNION {{es \in [1..n -> UNION {EdgesAt(i) : i \in 1..n}] :
              \A i \in 1..n : es[i].uuid = i} : n \in 0..MaxEdges}

RankIdle ==
    /\ rank_pc = "idle"
    /\ edges = <<>>
    /\ min_salience = NoInt
    /\ ranked = <<>>
    /\ lists = <<>>
    /\ ranked_ref = 0

\* One call ranked = rank_by_salience(edges, min_salience).
CallRank(es, m) ==
    /\ rank_pc = "idle"
    /\ edges' = es
    /\ min_salience' = m
    /\ ranked' = rank_by_salience(es, m)
    /\ lists' = rank_lists(es, m).lists
    /\ ranked_ref' = rank_lists(es, m).result
    /\ rank_pc' = "done"
    /\ UNCHANGED <<exceptRank>>

----------------------------------------------------------------------------
(* The chat-completions shim: llm_compat.py *)

\* Text is a sequence of characters.  A member of a JSON object ("salience":5
\* with its comma) is one lexeme of the text: it holds no whitespace, no
\* newline and no backtick, which is all the fence stripping looks at.
Whitespace == {" ", "\n", "\t"}
\* The backtick is written "'" here.
Backtick == "'"
Fence == <<Backtick, Backtick, Backtick>>
JsonTag == <<"j", "s", "o", "n">>

RECURSIVE LStrip(_)
LStrip(t) == IF t # <<>> /\ Head(t) \in Whitespace THEN LStrip(Tail(t)) ELSE t

RECURSIVE RStrip(_)
RStrip(t) ==
    IF t # <<>> /\ t[Len(t)] \in Whitespace
    THEN RStrip(SubSeq(t, 1, Len(t) - 1))
    ELSE t

\* str.strip()
Strip(t) == RStrip(LStrip(t))

\* str.startswith / str.endswith
StartsWith(t, p) == Len(t) >= Len(p) /\ SubSeq(t, 1, Len(p)) = p
EndsWith(t, p) == Len(t) >= Len(p) /\ SubSeq(t, Len(t) - Len(p) + 1, Len(t)) = p

\* str.split("\n"): the lines of t, at least one.
RECURSIVE SplitLines(_, _, _)
SplitLines(t, k, cur) ==
    IF k > Len(t) THEN <<cur>>
    ELSE IF t[k] = "\n" THEN <<cur>> \o SplitLines(t, k + 1, <<>>)
    ELSE SplitLines(t, k + 1, Append(cur, t[k]))

\* "\n".join(lines)
RECURSIVE JoinLines(_)
JoinLines(lines) ==
    IF lines = <<>> THEN <<>>
    ELSE IF Len(lines) = 1 THEN lines[1]
    ELSE lines[1] \o <<"\n">> \o JoinLines(Tail(lines))

\* _CODE_FENCE_RE.match(t), the pattern being: start, fence, (?:json)?,
\* \s*, \n?, (.*?), \n?, \s*, fence, end, with DOTALL.  On stripped text
\* it matches iff t opens and closes with two separate fences;
\* (?:json)? and \s* are greedy, so group 1 starts at the first
\* character after the tag that is no whitespace, and (.*?) is lazy, so it
\* ends at the last character before the closing fence that is none.
CodeFenceMatch(t) ==
    IF ~(Len(t) >= 6 /\ StartsWith(t, Fence) /\ EndsWith(t, Fence))
    THEN [matched |-> FALSE, group1 |-> <<>>]
    ELSE
        LET close == Len(t) - 2
            tagged == StartsWith(SubSeq(t, 4, Len(t)), JsonTag)
            first == IF tagged THEN 8 ELSE 4
            gs == CHOOSE i \in first..close :
                     /\ t[i] \notin Whitespace
                     /\ \A j \in first..(i - 1) : t[j] \in Whitespace
            inner == {i \in gs..(close - 1) : t[i] \notin Whitespace}
            ge == IF inner = {} THEN gs - 1
                  ELSE CHOOSE i \in inner : \A j \in inner : j <= i
        IN  [matched |-> TRUE, group1 |-> SubSeq(t, gs, ge)]

\* lines[1:-1] if the last line is a bare fence, else lines[1:]
DropFenceLines(lines) ==
    IF Strip(lines[Len(lines)]) = Fence
    THEN SubSeq(lines, 2, Len(lines) - 1)
    ELSE SubSeq(lines, 2, Len(lines))

_strip_code_fences(raw) ==
    LET text == Strip(raw)
        m == CodeFenceMatch(text)
    IN  IF m.matched THEN Strip(m.group1)
        ELSE IF StartsWith(text, Fence)
        THEN Strip(JoinLines(DropFenceLines(SplitLines(text, 1, <<>>))))
        ELSE text

\* The bounds of the integer fields of the entity types: ge=1, le=10.
SalienceMin == 1
SalienceMax == 10
\* Fact.salience: default=5
FactDefaultSalience == 5

\* class Fact(BaseModel): salience: int = Field(default=5, ge=1, le=10)
FactModel ==
    [name |-> "Fact", fields |-> <<"salience">>, required |-> {},
     defaults |-> {<<"salience", FactDefaultSalience>>},
     ge |-> SalienceMin, le |-> SalienceMax]

\* A response model of the extraction pipeline whose field is required:
\* salience: int = Field(..., ge=1, le=10)
RequiredModel ==
    [name |-> "Required", fields |-> <<"salience">>, required |-> {"salience"},
     defaults |-> {}, ge |-> SalienceMin, le |-> SalienceMax]

ResponseModels == {FactModel, RequiredModel}

\* The member lexemes of the JSON texts: <<lexeme, field, value>>.
MemberTable ==
    {<<"salience:5", "salience", 5>>, <<"salience:9", "salience", 9>>,
     <<"salience:11", "salience", 11>>, <<"extra:1", "extra", 1>>}
MemberLexemes == {m[1] : m \in MemberTable}
MemberOf(lex) == CHOOSE m \in MemberTable : m[1] = lex
LexemeOf(field, value) ==
    (CHOOSE m \in MemberTable : m[2] = field /\ m[3] = value)[1]

\* A JSON object as the set of its <<field, value>> pairs.
Has(obj, f) == \E p \in obj : p[1] = f
Val(obj, f) == (CHOOSE p \in obj : p[1] = f)[2]

\* JSON allows whitespace between its tokens.
JsonTokens(t) == SelectSeq(t, LAMBDA c : c \notin Whitespace)

IsJsonObjectText(t) ==
    LET k == JsonTokens(t)
    IN  /\ Len(k) >= 2
        /\ k[1] = "{"
        /\ k[Len(k)] = "}"
        /\ \A i \in 2..(Len(k) - 1) : k[i] \in MemberLexemes

\* The object a JSON text denotes; of a repeated key the last one counts.
ParseJsonObject(t) ==
    LET k == JsonTokens(t)
        last(i) == \A j \in (i + 1)..(Len(k) - 1) :
                      MemberOf(k[j])[2] # MemberOf(k[i])[2]
    IN  {<<MemberOf(k[i])[2], MemberOf(k[i])[3]>> :
            i \in {i \in 2..(Len(k) - 1) : last(i)}}

\* response_model.model_validate_json(content), pydantic's defaults: the
\* text must be a JSON object, a required field must be there, a field that
\* is there must be within ge..le, a field that is not gets its default, a
\* key the model does not declare is ignored.
model_validate_json(model, t) ==
    IF ~IsJsonObjectText(t) THEN [ok |-> FALSE, parsed |-> {}]
    ELSE
        LET obj == ParseJsonObject(t)
            declared == {model.fields[i] : i \in 1..Len(model.fields)}
            missing == {f \in model.required : ~Has(obj, f)}
            out_of_range == {f \in declared :
                                /\ Has(obj, f)
                                /\ (Val(obj, f) < model.ge \/ Val(obj, f) > model.le)}
        IN  IF missing # {} \/ out_of_range # {}
            THEN [ok |-> FALSE, parsed |-> {}]
            ELSE [ok |-> TRUE,
                  parsed |-> {<<f, IF Has(obj, f) THEN Val(obj, f)
                                   ELSE Val(model.defaults, f)>> : f \in declared}]

\* parsed.model_dump_json(): the declared fields in declaration order.
model_dump_json(model, parsed) ==
    <<"{">> \o [i \in 1..Len(model.fields) |->
                  LexemeOf(model.fields[i], Val(parsed, model.fields[i]))]
          \o <<"}">>

\* The content taken as it is, an absent one as the empty text.
ContentAsItIs(r) == IF r.is_none THEN <<>> ELSE r.value

\* response.choices[0].message.content or "{}"
ContentOrEmptyObject(r) ==
    IF r.is_none \/ r.value = <<>> THEN <<"{", "}">> ELSE r.value

\* Bounds and the replies drawn within them: a body, optionally behind an
\* opening fence (with or without the json tag) and before a closing one,
\* with or without the whitespace around them.
MaxPadding == 1
Paddings == SeqsUpTo({"\n"}, MaxPadding)
Separators == Paddings \cup {<<" ">>}
ReplyBodies ==
    {<<>>, <<"o", "k">>, <<"{", "}">>,
     <<"{", "salience:9", "}">>, <<"{", "salience:11", "}">>,
     <<"{", "extra:1", "}">>, <<"{", "salience:9", "extra:1", "}">>,
     <<"{", "\n", " ", "salience:9", "\n", "}">>}
ReplyTexts ==
    {lead \o open \o tag \o sep1 \o body \o sep2 \o close \o trail :
        lead \in Paddings, open \in {<<>>, Fence}, tag \in {<<>>, JsonTag},
        sep1 \in Separators, body \in ReplyBodies, sep2 \in Paddings,
        close \in {<<>>, Fence}, trail \in Paddings}
Replies == {None} \cup {Some(t) : t \in ReplyTexts}

\* schema_instruction: the JSON-only sentence followed by the schema of the
\* response model.
schema_instruction(model) == <<"Respond with ONLY raw JSON", model.name>>

\* schema_messages = list(messages); if schema_messages and
\* schema_messages[0].get("role") == "system": schema_messages[0] =
\* {**schema_messages[0], "content": str(content) + schema_instruction}
\* else: schema_messages.insert(0, {"role": "system", "content": ...})
schema_messages(messages, model) ==
    IF messages # <<>> /\ Get(messages[1], "role", "") = "system"
    THEN [messages EXCEPT ![1] =
            [role |-> "system",
             content |-> Get(messages[1], "content", <<>>) \o schema_instruction(model)]]
    ELSE <<[role |-> "system", content |-> schema_instruction(model)]>> \o messages

\* The dicts are objects 1, 2, ...; a list holds references to them.
NoObjects == [dicts |-> <<>>, caller |-> <<>>, sent |-> <<>>]
Refs(n) == [i \in 1..n |-> i]

\* An injection that works on the caller's list itself and writes into its
\* first dict.
MessagesInPlace(messages, model) ==
    LET sm == schema_messages(messages, model)
    IN  [dicts |-> sm, caller |-> Refs(Len(sm)), sent |-> Refs(Len(sm))]

\* The objects of one structured call.  list(messages) is a new list with
\* the caller's dicts; {**schema_messages[0], "content": ...} and the
\* inserted {"role": "system", ...} are new dicts, put into the new list
\* only.  The caller's dicts are 1..n, the new dict is n + 1 and stands
\* first in the list that is sent.
message_objects(messages, model) ==
    LET n == Len(messages)
        sm == schema_messages(messages, model)
    IN  [dicts |-> Append(messages, sm[1]),
         caller |-> Refs(n),
         sent |-> [i \in 1..Len(sm) |->
                      IF i = 1 THEN n + 1 ELSE IF Len(sm) = n THEN i ELSE i - 1]]

\* The list a reference list stands for.
Deref(objs, refs) == [i \in 1..Len(refs) |-> objs.dicts[refs[i]]]

\* response_format={"type": "json_object"}
json_object == [type |-> "json_object"]

\* The caller's message lists: the message at position i says i.
MaxMessages == 2
Roles == {"system", "user", "assistant"}
MessagesAt(i) ==
    {[role |-> ro, content |-> <<ToString(i)>>] : ro \in Roles} \cup {[role |-> "system"]}
MessageLists ==
    UNION {{ms \in [1..n -> UNION {MessagesAt(i) : i \in 1..n}] :
              \A i \in 1..n : ms[i] \in MessagesAt(i)} : n \in 0..MaxMessages}
\* The one list of the calls whose reply is looked at.
ShimMessages == {<<[role |-> "user", content |-> <<"1">>]>>}
\* The replies to the calls whose messages are looked at.
FewReplies == {None, Some(<<"o", "k">>), Some(<<"{", "salience:9", "}">>)}

ShimIdle ==
    /\ shim_pc = "idle"
    /\ shim_op = "structured"
    /\ caller_messages = <<>>
    /\ msg_objects = NoObjects
    /\ transport_calls = <<>>
    /\ response_model = FactModel
    /\ reply = None
    /\ content = <<>>
    /\ output_text = <<>>
    /\ shim_error = "none"

\* _create_structured_completion up to the await of the transport call.
StructuredCall(model, messages) ==
    /\ shim_pc = "idle"
    /\ response_model' = model
    /\ shim_op' = "structured"
    /\ caller_messages' = messages
    /\ msg_objects' = message_objects(messages, model)
    /\ transport_calls' =
          Append(transport_calls,
                 [messages |-> schema_messages(messages, model),
                  response_format |-> json_object])
    /\ shim_pc' = "awaiting"
    /\ UNCHANGED <<reply, content, output_text, shim_error>>
    /\ UNCHANGED <<exceptShim>>

\* The transport returns a response with content r: the rest of
\* _create_structured_completion, which returns a _StructuredResponse or
\* raises the validation error.
TransportReplies(r) ==
    /\ shim_pc = "awaiting"
    /\ shim_op = "structured"
    /\ reply' = r
    /\ LET stripped == _strip_code_fences(ContentOrEmptyObject(r))
           v == model_validate_json(response_model, stripped)
       IN  /\ content' = stripped
           /\ IF v.ok
              THEN /\ output_text' = model_dump_json(response_model, v.parsed)
                   /\ shim_error' = "none"
                   /\ shim_pc' = "returned"
              ELSE /\ output_text' = <<>>
                   /\ shim_error' = "validation"
                   /\ shim_pc' = "raised"
    /\ UNCHANGED <<response_model, shim_op, caller_messages, transport_calls, msg_objects>>
    /\ UNCHANGED <<exceptShim>>

\* A transport error answered by sending the same call again.
TransportFailsAndRetries ==
    /\ shim_pc = "awaiting"
    /\ Len(transport_calls) < 3
    /\ transport_calls' = Append(transport_calls, transport_calls[1])
    /\ UNCHANGED <<shim_pc, response_model, reply, content, output_text, shim_error>>
    /\ UNCHANGED <<shim_op, caller_messages, msg_objects>>
    /\ UNCHANGED <<exceptShim>>

\* The transport call raises: the exception leaves the shim as it is.
TransportFails ==
    /\ shim_pc = "awaiting"
    /\ shim_error' = "transport"
    /\ shim_pc' = "raised"
    /\ UNCHANGED <<response_model, reply, content, output_text>>
    /\ UNCHANGED <<shim_op, caller_messages, transport_calls, msg_objects>>
    /\ UNCHANGED <<exceptShim>>

\* _create_completion up to the await of its transport call: the messages
\* go out as they are.
CompleteCall(messages) ==
    /\ shim_pc = "idle"
    /\ shim_op' = "complete"
    /\ caller_messages' = messages
    /\ msg_objects' =
          [dicts |-> messages, caller |-> Refs(Len(messages)),
           sent |-> Refs(Len(messages))]
    /\ transport_calls' =
          Append(transport_calls,
                 [messages |-> messages, response_format |-> json_object])
    /\ shim_pc' = "awaiting"
    /\ UNCHANGED <<response_model, reply, content, output_text, shim_error>>
    /\ UNCHANGED <<exceptShim>>

\* The transport returns a response with content r to _create_completion,
\* which returns it as it is.
CompleteReturns(r) ==
    /\ shim_pc = "awaiting"
    /\ shim_op = "complete"
    /\ reply' = r
    /\ shim_pc' = "returned"
    /\ UNCHANGED <<response_model, content, output_text, shim_error>>
    /\ UNCHANGED <<shim_op, caller_messages, transport_calls, msg_objects>>
    /\ UNCHANGED <<exceptShim>>

\* The caller calls _create_structured_completion again, for the same
\* response model and with the list it passed before, as that list is now.
MaxCalls == 2
StructuredCallAgain ==
    /\ shim_pc \in {"returned", "raised"}
    /\ shim_op = "structured"
    /\ Len(transport_calls) < MaxCalls
    /\ LET messages == Deref(msg_objects, msg_objects.caller)
       IN  /\ msg_objects' = message_objects(messages, response_model)
           /\ transport_calls' =
                 Append(transport_calls,
                        [messages |-> schema_messages(messages, response_model),
                         response_format |-> json_object])
    /\ reply' = None
    /\ content' = <<>>
    /\ output_text' = <<>>
    /\ shim_error' = "none"
    /\ shim_pc' = "awaiting"
    /\ UNCHANGED <<response_model, shim_op, caller_messages>>
    /\ UNCHANGED <<exceptShim>>

----------------------------------------------------------------------------
(* The ingestion gateway: routers/ingest.py *)

\* The timestamps datetime.fromisoformat reads, as seconds; on every other
\* string it raises ValueError.
IsoTable == {<<"2024-01-01T00:00:03", 3>>, <<"2024-01-01T00:00:07", 7>>}

fromisoformat(str) ==
    IF \E e \in IsoTable : e[1] = str
    THEN [ok |-> TRUE, time |-> (CHOOSE e \in IsoTable : e[1] = str)[2]]
    ELSE [ok |-> FALSE, time |-> 0]

\* A resolver that drops what it parsed and always answers the clock.
ReferenceTimeAlwaysNow(ref_time, clock) == clock

\* if ref_time: try: return datetime.fromisoformat(ref_time)
\* except ValueError: pass; return datetime.now(timezone.utc)
_parse_reference_time(ref_time, clock) ==
    IF ~ref_time.is_none /\ ref_time.value # "" /\ fromisoformat(ref_time.value).ok
    THEN fromisoformat(ref_time.value).time
    ELSE clock

\* f"memory_{user_id}_{ref_time.strftime('%Y%m%d_%H%M%S')}"
episode_name(uid, ref_time) == <<"memory", uid, ref_time>>

\* The keyword arguments of graphiti.add_episode for one episode.
AddEpisodeArgs(episode, clock) ==
    LET ref_time == _parse_reference_time(episode.reference_time, clock)
    IN  [name |-> episode_name(episode.user_id, ref_time),
         episode_body |-> episode.content,
         reference_time |-> ref_time,
         group_id |-> _build_group_id(episode.user_id, episode.agent_id)]

\* A loop that starts every remaining call at once, as asyncio.gather would.
StartAllRemaining(started, n) == (started + 1)..n

\* for episode in body.episodes: ... await graphiti.add_episode(...): the
\* episodes whose call the loop issues when it runs on; none when all are
\* issued.
NextToStart(started, n) == IF started < n THEN {started + 1} ELSE {}

\* An except clause that gives up on the batch.
AbortOnItemError(results, name, message) == <<"abort", results>>

\* except Exception as e: results.append({"episode": episode_name,
\* "status": "error", "error": str(e)}), and the loop goes on.
OnItemError(results, name, message) ==
    <<"continue",
      Append(results, [episode |-> name, status |-> "error", error |-> message])>>

\* {"episode": episode_name, "entities": len(result.nodes),
\*  "edges": len(result.edges), "status": "ok"}
OkEntry(name, result) ==
    [episode |-> name, entities |-> result.nodes, edges |-> result.edges,
     status |-> "ok"]

\* Bounds and the requests drawn within them.  The content of the i-th
\* episode of a batch is its position, which tells the episodes apart.
MaxBatch == 2
MaxTicks == 1
ClockStart == 10
IngestUsers == {<<"a">>, <<"b">>}
BulkReferenceTimes == {NoStr, SomeStr("2024-01-01T00:00:03")}
ReferenceTimes ==
    {NoStr, SomeStr(""), SomeStr("yesterday"), SomeStr("2024-01-01T00:00:03"),
     SomeStr("2024-01-01T00:00:07")}
Episode(text, uid, ref) ==
    [content |-> text, user_id |-> uid, agent_id |-> None, reference_time |-> ref]
Batches ==
    UNION {{eps \in [1..n -> {Episode(i, u, r) : i \in 1..n, u \in IngestUsers,
                                                r \in BulkReferenceTimes}] :
              \A i \in 1..n : eps[i].content = i} : n \in 0..MaxBatch}
SingleBodies == {Episode(0, <<"a">>, r) : r \in ReferenceTimes}
\* What add_episode returns (its numbers of nodes and of edges) or raises.
PipelineResults == {[nodes |-> 1, edges |-> 2]}
PipelineErrors == {"boom"}

NoResponse == [code |-> 0]
\* A handler without the except clause: the framework's own answer.
UnhandledError(message) == [code |-> 500, detail |-> "Internal Server Error"]

\* except Exception as e: raise HTTPException(status_code=500, detail=str(e))
HTTPError500(message) == [code |-> 500, detail |-> message]
\* raise HTTPException(status_code=503, detail="Memory service not initialized")
NotInitialized == [code |-> 503, detail |-> "Memory service not initialized"]

IngestIdle ==
    /\ now = ClockStart
    /\ bulk_pc = "idle"
    /\ bulk_body = <<>>
    /\ bulk_started = 0
    /\ bulk_results = <<>>
    /\ bulk_response = NoResponse
    /\ ingest_pc = "idle"
    /\ ingest_body = Episode(0, <<>>, NoStr)
    /\ ingest_started_at = 0
    /\ ingest_response = NoResponse
    /\ in_flight = {}
    /\ finished = {}
    /\ pipeline_calls = <<>>


\* Time passes.
Tick ==
    /\ now < ClockStart + MaxTicks
    /\ now' = now + 1
    /\ UNCHANGED <<graphiti_ready, bulkVars, singleVars, pipelineVars, nonIngestVars>>

\* ingest_bulk running on, with started calls issued, the results so far and
\* the calls of the batch it still awaits, up to its next await or its return.
BulkRunsOn(eps, started, results, pending) ==
    LET ks == IF pending = {} THEN NextToStart(started, Len(eps)) ELSE {}
        calls == [i \in 1..Cardinality(ks) |->
                    [req |-> "bulk", k |-> started + i,
                     args |-> AddEpisodeArgs(eps[started + i], now)]]
        awaited == pending \cup
                     {[req |-> "bulk", k |-> calls[i].k, name |-> calls[i].args.name] :
                         i \in 1..Len(calls)}
    IN  /\ bulk_results' = results
        /\ bulk_started' = started + Len(calls)
        /\ pipeline_calls' = pipeline_calls \o calls
        /\ in_flight' = {c \in in_flight : c.req # "bulk"} \cup awaited
        /\ IF awaited = {}
           THEN /\ bulk_pc' = "done"
                /\ bulk_response' = [code |-> 200, status |-> "ok", results |-> results]
           ELSE /\ bulk_pc' = "awaiting"
                /\ UNCHANGED bulk_response

\* POST /v1/ingest/bulk: ingest_bulk up to its first await.
BulkArrives(eps) ==
    /\ bulk_pc = "idle"
    /\ bulk_body' = eps
    /\ IF graphiti_ready
       THEN BulkRunsOn(eps, 0, <<>>, {})
       ELSE /\ bulk_pc' = "rejected"
            /\ bulk_response' = NotInitialized
            /\ UNCHANGED <<bulk_started, bulk_results, in_flight, pipeline_calls>>
    /\ UNCHANGED <<graphiti_ready, now, finished, singleVars, nonIngestVars>>

\* The awaited add_episode call c of the batch returns result.
BulkCallReturns(c, result) ==
    /\ bulk_pc = "awaiting"
    /\ c \in in_flight
    /\ c.req = "bulk"
    /\ finished' = finished \cup
          {[req |-> "bulk", k |-> c.k, ok |-> TRUE, result |-> result, error |-> ""]}
    /\ BulkRunsOn(bulk_body, bulk_started,
                  Append(bulk_results, OkEntry(c.name, result)),
                  {x \in in_flight : x.req = "bulk"} \ {c})
    /\ UNCHANGED <<graphiti_ready, now, bulk_body, singleVars, nonIngestVars>>

\* The awaited add_episode call c of the batch raises.
BulkCallRaises(c, message) ==
    /\ bulk_pc = "awaiting"
    /\ c \in in_flight
    /\ c.req = "bulk"
    /\ finished' = finished \cup
          {[req |-> "bulk", k |-> c.k, ok |-> FALSE,
            result |-> [nodes |-> 0, edges |-> 0], error |-> message]}
    /\ LET handled == OnItemError(bulk_results, c.name, message)
       IN  IF handled[1] = "continue"
           THEN BulkRunsOn(bulk_body, bulk_started, handled[2],
                           {x \in in_flight : x.req = "bulk"} \ {c})
           ELSE /\ bulk_pc' = "done"
                /\ bulk_response' = [code |-> 500, detail |-> message]
                /\ bulk_results' = handled[2]
                /\ in_flight' = in_flight \ {c}
                /\ UNCHANGED <<bulk_started, pipeline_calls>>
    /\ UNCHANGED <<graphiti_ready, now, bulk_body, singleVars, nonIngestVars>>

\* POST /v1/ingest: ingest up to its await of add_episode.
IngestArrives(body) ==
    /\ ingest_pc = "idle"
    /\ ingest_body' = body
    /\ ingest_started_at' = now
    /\ IF graphiti_ready
       THEN LET args == AddEpisodeArgs(body, now)
            IN  /\ pipeline_calls' =
                      Append(pipeline_calls, [req |-> "single", k |-> 1, args |-> args])
                /\ in_flight' = in_flight \cup
                      {[req |-> "single", k |-> 1, name |-> args.name]}
                /\ ingest_pc' = "awaiting"
                /\ UNCHANGED ingest_response
       ELSE /\ ingest_pc' = "rejected"
            /\ ingest_response' = NotInitialized
            /\ UNCHANGED <<in_flight, pipeline_calls>>
    /\ UNCHANGED <<graphiti_ready, now, finished, bulkVars, nonIngestVars>>

\* The add_episode call of ingest returns result: the response is built.
IngestCallReturns(c, result) ==
    /\ ingest_pc = "awaiting"
    /\ c \in in_flight
    /\ c.req = "single"
    /\ finished' = finished \cup
          {[req |-> "single", k |-> c.k, ok |-> TRUE, result |-> result, error |-> ""]}
    /\ in_flight' = in_flight \ {c}
    /\ ingest_response' =
          [code |-> 200, status |-> "ok", episode |-> c.name,
           entities_extracted |-> result.nodes, edges_extracted |-> result.edges]
    /\ ingest_pc' = "done"
    /\ UNCHANGED <<graphiti_ready, now, ingest_body, ingest_started_at,
                   pipeline_calls, bulkVars, nonIngestVars>>

\* It raises: raise HTTPException(status_code=500, detail=str(e)).
IngestCallRaises(c, message) ==
    /\ ingest_pc = "awaiting"
    /\ c \in in_flight
    /\ c.req = "single"
    /\ finished' = finished \cup
          {[req |-> "single", k |-> c.k, ok |-> FALSE,
            result |-> [nodes |-> 0, edges |-> 0], error |-> message]}
    /\ in_flight' = in_flight \ {c}
    /\ ingest_response' = HTTPError500(message)
    /\ ingest_pc' = "done"
    /\ UNCHANGED <<graphiti_ready, now, ingest_body, ingest_started_at,
                   pipeline_calls, bulkVars, nonIngestVars>>

----------------------------------------------------------------------------
(* The API key middleware: main.py *)

\* PUBLIC_PATHS
PUBLIC_PATHS == {"/", "/health", "/docs", "/openapi.json", "/redoc"}

\* The paths under the routers' prefix /v1.
V1Paths ==
    {"/v1/ingest", "/v1/ingest/bulk", "/v1/recall", "/v1/entities", "/v1/episodes"}

\* request.headers.get("X-API-Key", "")
provided_key(header) == IF header.is_none THEN "" ELSE header.value

\* A check that lets every non-empty key through.
AcceptAnyKey(provided, key) == provided # ""

\* if provided_key != self.api_key: return JSONResponse(status_code=401, ...)
KeyAccepted(provided, key) == provided = key

\* APIKeyMiddleware.dispatch: what it does with a request.
dispatch(path, header, key) ==
    IF path \in PUBLIC_PATHS THEN "call_next"
    ELSE IF key.is_none \/ key.value = "" THEN "call_next"
    ELSE IF ~KeyAccepted(provided_key(header), key.value) THEN "401"
    ELSE "call_next"

Unauthorized == [code |-> 401, detail |-> "Invalid or missing API key"]

\* The secrets the middleware is built with, and the requests.
ApiKeys == {NoStr, SomeStr(""), SomeStr("s3cret"), SomeStr("k")}
RequestPaths == PUBLIC_PATHS \cup V1Paths \cup {"/v1", "/metrics"}
RequestKeys == {NoStr, SomeStr(""), SomeStr("s3cret"), SomeStr("k"), SomeStr("S3CRET")}
\* What the application behind the middleware answers.
HandlerCodes == {200, 404, 422, 500, 503}

AuthIdle ==
    /\ auth_pc = "idle"
    /\ req_path = ""
    /\ req_key = NoStr
    /\ auth_response = NoResponse
    /\ handler_reached = FALSE

\* A request arrives: dispatch up to its return or its call_next.
Dispatch(path, header) ==
    /\ auth_pc = "idle"
    /\ req_path' = path
    /\ req_key' = header
    /\ IF dispatch(path, header, api_key) = "401"
       THEN /\ auth_pc' = "rejected"
            /\ auth_response' = Unauthorized
       ELSE /\ auth_pc' = "forwarded"
            /\ UNCHANGED auth_response
    /\ UNCHANGED <<api_key, handler_reached>>
    /\ UNCHANGED <<exceptAuth>>

\* call_next(request): the application answers.
CallNext(code) ==
    /\ auth_pc = "forwarded"
    /\ handler_reached' = TRUE
    /\ auth_response' = [code |-> code]
    /\ auth_pc' = "answered"
    /\ UNCHANGED <<api_key, req_path, req_key>>
    /\ UNCHANGED <<exceptAuth>>

----------------------------------------------------------------------------
(* The handlers of routers/recall.py at the gateway's boundary *)

\* recall and list_entities await graphiti.search, list_episodes awaits
\* graphiti.retrieve_episodes, delete_entities awaits
\* graphiti.driver.execute_query.
ReadHandlers == {"recall", "list_entities", "list_episodes", "delete_entities"}

GatewayIdle ==
    /\ gw_pc = [h \in ReadHandlers |-> "idle"]
    /\ gw_response = [h \in ReadHandlers |-> NoResponse]
    /\ gw_outcome = [h \in ReadHandlers |-> "none"]
    /\ gw_called = {}

\* A request for handler h arrives: _get_graphiti, then the handler up to
\* the await of its external call.
HandlerArrives(h) ==
    /\ gw_pc[h] = "idle"
    /\ IF graphiti_ready
       THEN /\ gw_called' = gw_called \cup {h}
            /\ gw_pc' = [gw_pc EXCEPT ![h] = "awaiting"]
            /\ UNCHANGED gw_response
       ELSE /\ gw_pc' = [gw_pc EXCEPT ![h] = "rejected"]
            /\ gw_response' = [gw_response EXCEPT ![h] = NotInitialized]
            /\ UNCHANGED gw_called
    /\ UNCHANGED <<gw_outcome, exceptGateway>>

\* The external call of h returns: the handler formats its result and
\* answers {"status": "ok", ...}.
HandlerCallReturns(h) ==
    /\ gw_pc[h] = "awaiting"
    /\ gw_outcome' = [gw_outcome EXCEPT ![h] = "returned"]
    /\ gw_response' = [gw_response EXCEPT ![h] = [code |-> 200, status |-> "ok"]]
    /\ gw_pc' = [gw_pc EXCEPT ![h] = "done"]
    /\ UNCHANGED <<gw_called, exceptGateway>>

\* The external call of h raises an exception with the given message.
HandlerCallRaises(h, message) ==
    /\ gw_pc[h] = "awaiting"
    /\ gw_outcome' = [gw_outcome EXCEPT ![h] = message]
    /\ gw_response' = [gw_response EXCEPT ![h] = HTTPError500(message)]
    /\ gw_pc' = [gw_pc EXCEPT ![h] = "done"]
    /\ UNCHANGED <<gw_called, exceptGateway>>

----------------------------------------------------------------------------
(* The lifespan of the application: main.py, client.py *)

\* The lifespan has not run.
LifeIdle ==
    /\ life_pc = "off"
    /\ clients_created = 0
    /\ clients_closed = 0

\* lifespan starts and calls create_graphiti, which constructs the driver
\* and the Graphiti object and then awaits
\* graphiti.build_indices_and_constraints().
LifespanStarts ==
    /\ life_pc = "off"
    /\ ~graphiti_ready
    /\ clients_created' = clients_created + 1
    /\ life_pc' = "creating"
    /\ UNCHANGED <<graphiti_ready, clients_closed, exceptLife>>

\* build_indices_and_constraints returns: create_graphiti returns the
\* client, lifespan stores it in app.state.graphiti, reads
\* settings.memory_api_key for its log line and yields.
BuildIndicesReturns ==
    /\ life_pc = "creating"
    /\ graphiti_ready' = TRUE
    /\ life_pc' = "serving"
    /\ UNCHANGED <<clients_created, clients_closed, exceptLife>>

\* The same, with the Settings of config.py, which declare no
\* memory_api_key: the read raises AttributeError after the client was
\* stored, and lifespan ends before its yield.
ApiKeySettingMissing ==
    /\ life_pc = "creating"
    /\ graphiti_ready' = TRUE
    /\ life_pc' = "startup_failed"
    /\ UNCHANGED <<clients_created, clients_closed, exceptLife>>

\* build_indices_and_constraints raises: the exception leaves
\* create_graphiti and lifespan, which has no handler for it.
BuildIndicesRaises ==
    /\ life_pc = "creating"
    /\ life_pc' = "startup_failed"
    /\ UNCHANGED <<graphiti_ready, clients_created, clients_closed, exceptLife>>

\* Shutdown: lifespan resumes after its yield and awaits graphiti.close().
Shutdown ==
    /\ life_pc = "serving"
    /\ clients_closed' = clients_closed + 1
    /\ life_pc' = "stopped"
    /\ UNCHANGED <<graphiti_ready, clients_created, exceptLife>>

\* The application takes requests until its lifespan is over.
LifespanOver == life_pc \in {"stopped", "startup_failed"}

RequestArrives(h) ==
    /\ ~LifespanOver
    /\ HandlerArrives(h)

----------------------------------------------------------------------------
(* The entity templates: entity_types.py *)

\* The defaults of the integer fields.
DecisionDefaultSalience == 8
FailureDefaultSeverity == 7
FailureDefaultSalience == 9
ReflectionDefaultSalience == 9

\* The integer fields of the other three templates, in the shape of
\* FactModel; every one of them is declared with ge=1, le=10.  The text
\* fields carry no constraint.
DecisionModel ==
    [name |-> "Decision", fields |-> <<"salience">>, required |-> {},
     defaults |-> {<<"salience", DecisionDefaultSalience>>},
     ge |-> SalienceMin, le |-> SalienceMax]
FailureModel ==
    [name |-> "Failure", fields |-> <<"severity", "salience">>, required |-> {},
     defaults |-> {<<"severity", FailureDefaultSeverity>>,
                   <<"salience", FailureDefaultSalience>>},
     ge |-> SalienceMin, le |-> SalienceMax]
ReflectionModel ==
    [name |-> "Reflection", fields |-> <<"salience">>, required |-> {},
     defaults |-> {<<"salience", ReflectionDefaultSalience>>},
     ge |-> SalienceMin, le |-> SalienceMax]

\* ENTITY_TYPES
ENTITY_TYPES == {FactModel, DecisionModel, FailureModel, ReflectionModel}

\* A field declared without its upper bound.
NoUpperBound(model, v) == v >= model.ge

\* Field(..., ge=1, le=10)
WithinBounds(model, v) == v >= model.ge /\ v <= model.le

\* Model(**kwargs): a keyword that is given must be within its bounds, one
\* that is not given gets its default.
NewEntity(model, kwargs) ==
    LET declared == {model.fields[i] : i \in 1..Len(model.fields)}
        rejected == {f \in declared : Has(kwargs, f) /\ ~WithinBounds(model, Val(kwargs, f))}
    IN  IF rejected # {}
        THEN [ok |-> FALSE, instance |-> {}]
        ELSE [ok |-> TRUE,
              instance |-> {<<f, IF Has(kwargs, f) THEN Val(kwargs, f)
                                 ELSE Val(model.defaults, f)>> : f \in declared}]

\* The keyword arguments tried: every declared integer field either left
\* out or given a value around the bounds.
FieldValues == {-1, 0, 1, 2, 5, 9, 10, 11, 12}
KwargsFor(model) ==
    LET declared == {model.fields[i] : i \in 1..Len(model.fields)}
    IN  UNION {{ {<<f, g[f]>> : f \in given} : g \in [given -> FieldValues]} :
                  given \in SUBSET declared}

EntityIdle ==
    /\ ent_pc = "idle"
    /\ ent_model = FactModel
    /\ ent_kwargs = {}
    /\ ent_instance = {}

\* An instance of a template is constructed.
Construct(model, kwargs) ==
    /\ ent_pc = "idle"
    /\ ent_model' = model
    /\ ent_kwargs' = kwargs
    /\ LET made == NewEntity(model, kwargs)
       IN  /\ ent_instance' = made.instance
           /\ ent_pc' = IF made.ok THEN "constructed" ELSE "validation_error"
    /\ UNCHANGED <<exceptEntity>>

----------------------------------------------------------------------------
(* The recall handler: routers/recall.py *)

\* The first n elements of a list: seq[:n].
Take(seq, n) == SubSeq(seq, 1, IF n < Len(seq) THEN n ELSE Len(seq))

\* for i, edge in enumerate(results.edges): score =
\* results.edge_reranker_scores[i] if i < len(results.edge_reranker_scores)
\* else 0.0; edges.append({"uuid": edge.uuid, ..., "score": score}).  The
\* other keys are copied from the edge.
format_edges(result_edges, scores) ==
    [i \in 1..Len(result_edges) |->
        [uuid |-> result_edges[i],
         score |-> IF i <= Len(scores) THEN scores[i] ELSE 0]]

\* A handler that cuts the list to limit before it ranks it.
TruncateThenRank(es, m, limit) == rank_by_salience(Take(es, limit), m)

\* ranked_edges = rank_by_salience(edges, body.min_salience)
\* ... "edges": ranked_edges[: body.limit]
ranked_edges_to_limit(es, m, limit) == Take(rank_by_salience(es, m), limit)

\* Bounds and the requests and search results drawn within them: the edge
\* at position i of the search result has uuid i, and the reranker gave a
\* score to the first ones.
MaxResults == 3
MaxLimit == 2
RecallLimits == 1..MaxLimit
RecallMinSaliences == {NoInt, SomeInt(1), SomeInt(5)}
SearchResults ==
    UNION {{[edges |-> [i \in 1..n |-> i], edge_reranker_scores |-> sc] :
              sc \in UNION {[1..k -> ScoreSample] : k \in 0..n}} : n \in 0..MaxResults}

RecallIdle ==
    /\ recall_pc = "idle"
    /\ recall_limit = 1
    /\ recall_min_salience = NoInt
    /\ search_result = [edges |-> <<>>, edge_reranker_scores |-> <<>>]
    /\ recall_edges = <<>>

\* POST /v1/recall: recall up to the await of graphiti.search.
RecallArrives(limit, m) ==
    /\ recall_pc = "idle"
    /\ recall_limit' = limit
    /\ recall_min_salience' = m
    /\ recall_pc' = "awaiting"
    /\ UNCHANGED <<search_result, recall_edges, exceptRecall>>

\* graphiti.search returns: the edges are formatted, ranked and cut.
SearchReturns(results) ==
    /\ recall_pc = "awaiting"
    /\ search_result' = results
    /\ recall_edges' =
          ranked_edges_to_limit(
              format_edges(results.edges, results.edge_reranker_scores),
              recall_min_salience, recall_limit)
    /\ recall_pc' = "done"
    /\ UNCHANGED <<recall_limit, recall_min_salience, exceptRecall>>

----------------------------------------------------------------------------
vars == <<scopeVars, tenantVars, rankVars, shimVars, ingestVars, authVars, gatewayVars,
          entityVars, recallVars, lifeVars>>

\* The state before any request, with the shared client in place.
Idle ==
    /\ ScopeIdle /\ TenantIdle /\ RankIdle /\ ShimIdle /\ IngestIdle /\ AuthIdle
    /\ GatewayIdle /\ EntityIdle
    /\ RecallIdle
    /\ LifeIdle

InitScope == Idle /\ graphiti_ready = TRUE /\ api_key = NoStr
NextScope ==
    \/ \E u \in UserIds, a \in AgentIds : IngestScope(u, a)
    \/ RecallScope
SpecScope == InitScope /\ [][NextScope]_vars

InitTenants == Idle /\ graphiti_ready = TRUE /\ api_key = NoStr
NextTenants == \E u \in TenantUserIds, a \in TenantAgentIds : IngestTenant(u, a)
SpecTenants == InitTenants /\ [][NextTenants]_vars

\* A few callers ingesting and clearing their scopes.
InitClear == Idle /\ graphiti_ready = TRUE /\ api_key = NoStr
NextClear ==
    \/ \E u \in ClearUserIds, a \in ClearAgentIds : IngestTenant(u, a)
    \/ \E u \in ClearUserIds, a \in ClearAgentIds : DeleteTenant(u, a)
    \/ \E u \in ClearUserIds, a \in ClearAgentIds : DeleteFails(u, a)
SpecClear == InitClear /\ [][NextClear]_vars

InitRank == Idle /\ graphiti_ready = TRUE /\ api_key = NoStr
NextRank == \E es \in EdgeLists, m \in MinSalienceSample : CallRank(es, m)
SpecRank == InitRank /\ [][NextRank]_vars

InitShim == Idle /\ graphiti_ready = TRUE /\ api_key = NoStr
NextShim ==
    \/ \E model \in ResponseModels, ms \in ShimMessages : StructuredCall(model, ms)
    \/ \E r \in Replies : TransportReplies(r)
    \/ TransportFails
SpecShim == InitShim /\ [][NextShim]_vars

\* One call of either method of the client with any message list.
InitMessages == Idle /\ graphiti_ready = TRUE /\ api_key = NoStr
NextMessages ==
    \/ \E model \in ResponseModels, ms \in MessageLists : StructuredCall(model, ms)
    \/ \E ms \in MessageLists : CompleteCall(ms)
    \/ \E r \in FewReplies : TransportReplies(r)
    \/ \E r \in FewReplies : CompleteReturns(r)
    \/ TransportFails
SpecMessages == InitMessages /\ [][NextMessages]_vars

\* Structured calls with any message list, repeated with the same list.
InitRepeated == Idle /\ graphiti_ready = TRUE /\ api_key = NoStr
NextRepeated ==
    \/ \E model \in ResponseModels, ms \in MessageLists : StructuredCall(model, ms)
    \/ \E r \in FewReplies : TransportReplies(r)
    \/ TransportFails
    \/ StructuredCallAgain
SpecRepeated == InitRepeated /\ [][NextRepeated]_vars

\* The gateway with one bulk and one single request, the shared client
\* either set by the lifespan or not.
InitIngest == Idle /\ graphiti_ready \in BOOLEAN /\ api_key = NoStr
NextIngest ==
    \/ Tick
    \/ \E eps \in Batches : BulkArrives(eps)
    \/ \E c \in in_flight, result \in PipelineResults : BulkCallReturns(c, result)
    \/ \E c \in in_flight, message \in PipelineErrors : BulkCallRaises(c, message)
    \/ \E body \in SingleBodies : IngestArrives(body)
    \/ \E c \in in_flight, result \in PipelineResults : IngestCallReturns(c, result)
    \/ \E c \in in_flight, message \in PipelineErrors : IngestCallRaises(c, message)
SpecIngest == InitIngest /\ [][NextIngest]_vars

\* The middleware built with any secret, or none, and one request.
InitAuth == Idle /\ graphiti_ready = TRUE /\ api_key \in ApiKeys
NextAuth ==
    \/ \E path \in RequestPaths, header \in RequestKeys : Dispatch(path, header)
    \/ \E code \in HandlerCodes : CallNext(code)
SpecAuth == InitAuth /\ [][NextAuth]_vars

\* Every handler of the gateway with one request each, the shared client
\* either set by the lifespan or not.
GatewayBodies == {Episode(0, <<"a">>, NoStr)}
GatewayBatches == {<<>>, <<Episode(1, <<"a">>, NoStr)>>}
InitGateway == Idle /\ graphiti_ready \in BOOLEAN /\ api_key = NoStr
NextGateway ==
    \/ \E h \in ReadHandlers : HandlerArrives(h)
    \/ \E h \in ReadHandlers : HandlerCallReturns(h)
    \/ \E h \in ReadHandlers, message \in PipelineErrors : HandlerCallRaises(h, message)
    \/ \E eps \in GatewayBatches : BulkArrives(eps)
    \/ \E c \in in_flight, result \in PipelineResults : BulkCallReturns(c, result)
    \/ \E c \in in_flight, message \in PipelineErrors : BulkCallRaises(c, message)
    \/ \E body \in GatewayBodies : IngestArrives(body)
    \/ \E c \in in_flight, result \in PipelineResults : IngestCallReturns(c, result)
    \/ \E c \in in_flight, message \in PipelineErrors : IngestCallRaises(c, message)
SpecGateway == InitGateway /\ [][NextGateway]_vars

\* One run of the lifespan, with requests for the handlers at any time
\* before it is over.
InitLifespan == Idle /\ graphiti_ready = FALSE /\ api_key = NoStr
NextLifespan ==
    \/ LifespanStarts
    \/ BuildIndicesReturns
    \/ ApiKeySettingMissing
    \/ BuildIndicesRaises
    \/ Shutdown
    \/ \E h \in ReadHandlers : RequestArrives(h)
    \/ \E h \in ReadHandlers : HandlerCallReturns(h)
    \/ \E h \in ReadHandlers, message \in PipelineErrors : HandlerCallRaises(h, message)
SpecLifespan == InitLifespan /\ [][NextLifespan]_vars

\* One construction of an instance of a template.
InitEntities == Idle /\ graphiti_ready = TRUE /\ api_key = NoStr
NextEntities == \E model \in ENTITY_TYPES : \E kwargs \in KwargsFor(model) : Construct(model, kwargs)
SpecEntities == InitEntities /\ [][NextEntities]_vars

\* One recall request.
InitRecall == Idle /\ graphiti_ready = TRUE /\ api_key = NoStr
NextRecall ==
    \/ \E limit \in RecallLimits, m \in RecallMinSaliences : RecallArrives(limit, m)
    \/ \E results \in SearchResults : SearchReturns(results)
SpecRecall == InitRecall /\ [][NextRecall]_vars

----------------------------------------------------------------------------
(* Properties of the scope keys *)

\* The alphabet of a ScopeKey: [A-Za-z0-9_-].
ScopeKeyAlphabet == LowerCase \cup UpperCase \cup Digits \cup {"_", "-"}

OverScopeKeyAlphabet(s) == \A i \in 1..Len(s) : s[i] \in ScopeKeyAlphabet

\* out is raw with every character outside the alphabet replaced by "_".
IsSanitized(raw, out) ==
    /\ Len(out) = Len(raw)
    /\ \A i \in 1..Len(raw) :
          /\ raw[i] \in ScopeKeyAlphabet => out[i] = raw[i]
          /\ raw[i] \notin ScopeKeyAlphabet => out[i] = "_"

\* out is sanitize(u) + "_" + sanitize(a).
IsJoinedScope(u, a, out) ==
    /\ Len(out) = Len(u) + 1 + Len(a)
    /\ IsSanitized(u, SubSeq(out, 1, Len(u)))
    /\ out[Len(u) + 1] = "_"
    /\ IsSanitized(a, SubSeq(out, Len(u) + 2, Len(out)))

\* C1: the labels recall searches are [scope(user_id)] when agent_id is
\* absent and [scope(user_id), scope(user_id, agent_id)] when it is present,
\* each element being the ScopeKey ingest computed for the same arguments
\* (an empty agent_id counted as absent, as ingest counts it).
C1_ScopeGroupIsScope ==
    scope_pc = "recalled" =>
        group_ids = IF ~Truthy(agent_id)
                    THEN <<_build_group_id(user_id, None)>>
                    ELSE <<_build_group_id(user_id, None), group_id>>

\* C2 (as claimed): scope is over [A-Za-z0-9_-]; it is sanitize(user_id) when
\* agent_id is absent and sanitize(user_id) + "_" + sanitize(agent_id)
\* whenever agent_id is present.
C2_ScopeFormatWhenPresent ==
    scope_pc # "idle" =>
        /\ OverScopeKeyAlphabet(group_id)
        /\ IF agent_id.is_none
           THEN IsSanitized(user_id, group_id)
           ELSE IsJoinedScope(user_id, agent_id.value, group_id)

\* C2 (amended): scope is over [A-Za-z0-9_-]; it is sanitize(user_id) when
\* agent_id is absent or the empty string, and sanitize(user_id) + "_" +
\* sanitize(agent_id) when agent_id is a non-empty string.
C2_ScopeFormat ==
    scope_pc # "idle" =>
        /\ OverScopeKeyAlphabet(group_id)
        /\ IF agent_id.is_none \/ agent_id.value = <<>>
           THEN IsSanitized(user_id, group_id)
           ELSE IsJoinedScope(user_id, agent_id.value, group_id)

\* The analogue of "user/1" -> "user_1", with an agent that is sanitized too.
C2_Witness ==
    /\ scope_pc = "ingested"
    /\ user_id = <<"a", "/", "7">>
    /\ agent_id = Some(<<":">>)
    /\ group_id = <<"a", "_", "7", "_", "_">>

\* C3: two different (user_id, agent_id) pairs whose identifiers are already
\* over [A-Za-z0-9_-] never get the same ScopeKey; in particular a user-only
\* scope never equals another user's user+agent scope.
C3_CollisionFree ==
    \A n \in graph : \A m \in graph :
        ( /\ <<n.user_id, n.agent_id>> # <<m.user_id, m.agent_id>>
          /\ OverScopeKeyAlphabet(n.user_id) /\ OverScopeKeyAlphabet(n.agent_id.value)
          /\ OverScopeKeyAlphabet(m.user_id) /\ OverScopeKeyAlphabet(m.agent_id.value) )
        => n.group_id # m.group_id

\* The nodes an ingest for (u, a) wrote.
WrittenFor(g, u, a) == {n \in g : n.user_id = u /\ n.agent_id = a}

\* C11: after delete_entities(user_id, agent_id) succeeded on a graph that
\* held nodes an ingest with the same (user_id, agent_id) wrote, none of
\* those nodes remains, the reported deleted_scope is the label ingest gave
\* them, and every node under another label is still there.
C11_DeleteClearsScope ==
    (last_op = "deleted" /\ WrittenFor(graph_before, del_user, del_agent) # {}) =>
        /\ WrittenFor(graph, del_user, del_agent) = {}
        /\ deleted_scope = _build_group_id(del_user, del_agent)
        /\ \A n \in graph_before :
              n.group_id # _build_group_id(del_user, del_agent) => n \in graph

----------------------------------------------------------------------------
(* Properties of the salience ranker *)

\* The elements of a list, as a set.
Elems(seq) == {seq[i] : i \in 1..Len(seq)}

\* The score a fact is ordered by (a fact without a score counts as 0).
ScoreOf(e) == IF "score" \in DOMAIN e THEN e.score ELSE 0

\* salience if the fact has one, else its score if it has one, else 5.
ImportanceOf(e) ==
    IF "salience" \in DOMAIN e THEN e.salience
    ELSE IF "score" \in DOMAIN e THEN e.score
    ELSE 5

\* C4: rank(facts, None) returns all input facts by score descending, and of
\* two facts with equal score the one first in the input comes first (the
\* fact at input position i has uuid i); rank([]) is [].
C4_StableScoreDescending ==
    (rank_pc = "done" /\ min_salience.is_none) =>
        /\ Len(ranked) = Len(edges)
        /\ Elems(ranked) = Elems(edges)
        /\ \A i \in 1..Len(ranked) : \A j \in 1..Len(ranked) :
              i < j =>
                /\ ScoreOf(ranked[i]) >= ScoreOf(ranked[j])
                /\ ScoreOf(ranked[i]) = ScoreOf(ranked[j])
                      => ranked[i].uuid < ranked[j].uuid
        /\ edges = <<>> => ranked = <<>>

\* Scores [4, 7, 4] come out as uuids [2, 1, 3]: descending, the tie in
\* input order.
C4_Witness ==
    /\ rank_pc = "done"
    /\ min_salience.is_none
    /\ edges = <<[uuid |-> 1, score |-> 4], [uuid |-> 2, score |-> 7],
                 [uuid |-> 3, score |-> 4]>>
    /\ ranked = <<[uuid |-> 2, score |-> 7], [uuid |-> 1, score |-> 4],
                  [uuid |-> 3, score |-> 4]>>

\* C5: with min_salience given, rank keeps exactly the facts whose
\* effective importance (salience, else score, else 5) is >= min_salience;
\* a fact with a salience is judged by it alone; all filtered gives [].
C5_FilterByImportance ==
    (rank_pc = "done" /\ ~min_salience.is_none) =>
        /\ Elems(ranked) =
              {e \in Elems(edges) : ImportanceOf(e) >= min_salience.value}
        /\ Len(ranked) = Cardinality(Elems(ranked))
        /\ (\A e \in Elems(edges) : ImportanceOf(e) < min_salience.value)
              => ranked = <<>>

\* min_salience 5: salience 3 drops a fact of score 7, salience 9 keeps a
\* fact of score 0, score 7 alone keeps its fact.
C5_Witness ==
    /\ rank_pc = "done"
    /\ min_salience = SomeInt(5)
    /\ edges = <<[uuid |-> 1, score |-> 7, salience |-> 3],
                 [uuid |-> 2, score |-> 0, salience |-> 9],
                 [uuid |-> 3, score |-> 7]>>
    /\ ranked = <<[uuid |-> 3, score |-> 7],
                  [uuid |-> 2, score |-> 0, salience |-> 9]>>

----------------------------------------------------------------------------
(* Properties of the chat-completions shim *)

\* b occurs in t as a run of consecutive characters.
Contains(t, b) ==
    \E i \in 0..(Len(t) - Len(b)) : SubSeq(t, i + 1, i + Len(b)) = b

\* The JSON objects a reply can carry, as texts.
JsonContents == {b \in ReplyBodies : b # <<>> /\ b[1] = "{" /\ b[Len(b)] = "}"}

\* The JSON objects that occur in the transport's reply.
JsonIn(r) == IF r.is_none THEN {} ELSE {b \in JsonContents : Contains(r.value, b)}

\* The members of a JSON text that set field f, as <<lexeme, field, value>>.
MembersFor(b, f) == {m \in MemberTable : m[2] = f /\ \E i \in 1..Len(b) : b[i] = m[1]}

DeclaredFields(model) == {model.fields[i] : i \in 1..Len(model.fields)}

\* text is a JSON object with every declared field once, within its bounds.
SatisfiesSchema(model, text) ==
    /\ text # <<>>
    /\ text[1] = "{"
    /\ text[Len(text)] = "}"
    /\ \A f \in DeclaredFields(model) :
          /\ Cardinality({i \in 1..Len(text) : \E m \in MembersFor(text, f) :
                                                  text[i] = m[1]}) = 1
          /\ \A m \in MembersFor(text, f) : m[3] >= 1 /\ m[3] <= 10

ShimAnswered == shim_pc \in {"returned", "raised"} /\ shim_error # "transport"

\* C6: structured_complete never returns a result that fails validation: a
\* reply that is non-JSON text, or JSON that omits a required field or
\* violates a field constraint, makes the call fail with a validation error
\* and return no object; whatever it returns satisfies the target schema.
C6_NeverReturnsInvalid ==
    ShimAnswered =>
        /\ shim_pc = "returned" => SatisfiesSchema(response_model, output_text)
        /\ ( \/ JsonIn(reply) = {}
             \/ \E b \in JsonIn(reply) : \E f \in response_model.required :
                   MembersFor(b, f) = {}
             \/ \E b \in JsonIn(reply) : \E f \in DeclaredFields(response_model) :
                   \E m \in MembersFor(b, f) : m[3] < 1 \/ m[3] > 10 )
           => /\ shim_pc = "raised"
              /\ shim_error = "validation"
              /\ output_text = <<>>

\* The first line of t.
FirstLine(t) == SplitLines(t, 1, <<>>)[1]

\* t without the first n characters.
DropFirst(t, n) == SubSeq(t, n + 1, Len(t))

\* C7: of a reply entirely wrapped in a fence (optionally tagged json) the
\* stripped text is the inner content, without fence characters; of a reply
\* with a leading fence line and no trailing fence only that line is
\* dropped; a reply with no leading fence is unchanged apart from the
\* whitespace around it; stripping never discards JSON content of the reply.
C7_FenceStripping ==
    (ShimAnswered /\ ~reply.is_none /\ reply.value # <<>>) =>
        LET t == Strip(reply.value)
            tag == IF StartsWith(DropFirst(t, 3), JsonTag) THEN 7 ELSE 3
            wrapped == Len(t) >= 6 /\ StartsWith(t, Fence) /\ EndsWith(t, Fence)
            leading == /\ StartsWith(t, Fence)
                       /\ ~EndsWith(t, Fence)
                       /\ Strip(FirstLine(t)) \in {Fence, Fence \o JsonTag}
        IN  /\ wrapped =>
                /\ content = Strip(SubSeq(t, tag + 1, Len(t) - 3))
                /\ \A i \in 1..Len(content) : content[i] # Backtick
            /\ leading => content = Strip(DropFirst(t, Len(FirstLine(t))))
            /\ ~StartsWith(t, Fence) => content = t
            /\ \A b \in JsonContents :
                  Contains(reply.value, b) => Contains(content, b)

----------------------------------------------------------------------------
(* Properties of the ingestion gateway *)

\* What add_episode was called with by the bulk request, in call order.
BulkCalls == SelectSeq(pipeline_calls, LAMBDA c : c.req = "bulk")

\* The same for the single request.
SingleCalls == SelectSeq(pipeline_calls, LAMBDA c : c.req = "single")

\* The add_episode calls of the batch that are in flight.
BulkInFlight == {c \in in_flight : c.req = "bulk"}

\* C8: bulk ingest is strictly sequential, in submission order: at most one
\* add_episode call of the batch is in flight, the calls issued so far are
\* those of the first episodes of the list in the order of the list, the
\* call of an episode is issued only when the calls of all the episodes
\* before it have returned or raised, and the response comes after all of
\* them.
C8_StrictlySequential ==
    /\ Cardinality(BulkInFlight) <= 1
    /\ Len(BulkCalls) <= Len(bulk_body)
    /\ \A i \in 1..Len(BulkCalls) :
          /\ BulkCalls[i].args.episode_body = bulk_body[i].content
          /\ BulkCalls[i].args.group_id =
                _build_group_id(bulk_body[i].user_id, bulk_body[i].agent_id)
          /\ \A j \in 1..(i - 1) : \E f \in finished : f.req = "bulk" /\ f.k = j
    /\ bulk_pc = "done" =>
          /\ Len(BulkCalls) = Len(bulk_body)
          /\ BulkInFlight = {}

\* The second call of a batch of two is in flight, issued after the first
\* one ended, while the call of the single request is in flight too.
C8_Witness ==
    /\ Len(bulk_body) = 2
    /\ Len(BulkCalls) = 2
    /\ \E c \in in_flight : c.req = "bulk" /\ c.k = 2
    /\ \E c \in in_flight : c.req = "single"
    /\ \E f \in finished : f.req = "bulk" /\ f.k = 1

\* The entry that reports how the i-th add_episode call of the batch ended.
EntryFor(i, f) ==
    IF f.ok
    THEN [episode |-> BulkCalls[i].args.name, entities |-> f.result.nodes,
          edges |-> f.result.edges, status |-> "ok"]
    ELSE [episode |-> BulkCalls[i].args.name, status |-> "error", error |-> f.error]

\* C9: with the client initialised, bulk ingest of n episodes answers status
\* ok with exactly n entries; at every moment the i-th entry collected is
\* the one of the i-th episode: it carries the episode's name (with the
\* episode's user_id) and is ok with the numbers of entities and edges when
\* the episode's call returned, error with the message when it raised; so
\* an entry once collected stays, and a failure stops nothing after it.
C9_PartialFailure ==
    graphiti_ready =>
        /\ bulk_pc = "done" =>
              /\ bulk_response.code = 200
              /\ bulk_response.status = "ok"
              /\ bulk_response.results = bulk_results
              /\ Len(bulk_results) = Len(bulk_body)
        /\ \A i \in 1..Len(bulk_results) :
              /\ \E f \in finished :
                    f.req = "bulk" /\ f.k = i /\ bulk_results[i] = EntryFor(i, f)
              /\ bulk_results[i].episode[2] = bulk_body[i].user_id
        /\ \A f \in finished : f.req = "bulk" => f.k <= Len(bulk_results)

\* A batch of two whose first call raised and whose second returned: two
\* entries, error and then ok.
C9_Witness ==
    /\ bulk_pc = "done"
    /\ Len(bulk_body) = 2
    /\ bulk_body[1].user_id # bulk_body[2].user_id
    /\ Len(bulk_response.results) = 2
    /\ bulk_response.results[1].status = "error"
    /\ bulk_response.results[2].status = "ok"
    /\ bulk_response.results[2].entities = 1

\* The caller's reference_time is an ISO-8601 timestamp.
IsIsoTimestamp(ref) == ~ref.is_none /\ \E e \in IsoTable : e[1] = ref.value

\* C10: with the client initialised, ingest never fails because of
\* reference_time: whatever it is the request reaches the pipeline; without
\* a reference_time, or with one that is no ISO-8601 timestamp, the pipeline
\* gets the time of the request as reference time, with one that is, the
\* time it denotes; and the answer is status ok when the pipeline call
\* returned.
C10_ReferenceTimeNeverFails ==
    (graphiti_ready /\ ingest_pc # "idle") =>
        /\ Len(SingleCalls) = 1
        /\ SingleCalls[1].args.reference_time =
              IF IsIsoTimestamp(ingest_body.reference_time)
              THEN (CHOOSE e \in IsoTable : e[1] = ingest_body.reference_time.value)[2]
              ELSE ingest_started_at
        /\ ingest_pc = "done" =>
              \E f \in finished :
                 /\ f.req = "single"
                 /\ f.ok => ingest_response.code = 200 /\ ingest_response.status = "ok"
                 /\ ~f.ok => ingest_response.code = 500

\* A request whose reference_time does not parse was answered ok, after the
\* pipeline got the time of the request.
C10_Witness ==
    /\ ingest_pc = "done"
    /\ ingest_body.reference_time = SomeStr("yesterday")
    /\ ingest_response.code = 200
    /\ ingest_response.status = "ok"
    /\ SingleCalls[1].args.reference_time = ingest_started_at
    /\ now > ingest_started_at

----------------------------------------------------------------------------
(* Properties of the API key middleware *)

\* A secret is configured: the middleware holds a non-empty key.
SecretConfigured == ~api_key.is_none /\ api_key.value # ""

\* The request carries the X-API-Key header with the configured secret.
CarriesSecret == ~req_key.is_none /\ req_key.value = api_key.value

----------------------------------------------------------------------------
(* Properties of the gateway's error mapping *)

\* The codes with which a handler of the gateway answers.
GatewayCodes == {200, 500, 503}

\* C13: when the external call of ingest, recall, list entities, list
\* episodes or delete raises, the handler answers HTTP 500 with the
\* exception's message as detail, and no handler ends otherwise than with
\* an answer; without the shared client every /v1 handler, bulk ingest
\* included, answers HTTP 503 and makes no external call.
C13_ErrorMapping ==
    /\ \A h \in ReadHandlers :
          /\ gw_outcome[h] \notin {"none", "returned"} =>
                gw_response[h] = [code |-> 500, detail |-> gw_outcome[h]]
          /\ gw_pc[h] \in {"done", "rejected"} => gw_response[h].code \in GatewayCodes
          /\ (~graphiti_ready /\ gw_pc[h] # "idle") =>
                /\ gw_response[h] = [code |-> 503, detail |-> "Memory service not initialized"]
                /\ h \notin gw_called
    /\ \A f \in finished :
          (f.req = "single" /\ ~f.ok) =>
              ingest_response = [code |-> 500, detail |-> f.error]
    /\ ingest_pc \in {"done", "rejected"} => ingest_response.code \in GatewayCodes
    /\ bulk_pc \in {"done", "rejected"} => bulk_response.code \in GatewayCodes
    /\ (~graphiti_ready /\ ingest_pc # "idle") =>
          ingest_response = [code |-> 503, detail |-> "Memory service not initialized"]
    /\ (~graphiti_ready /\ bulk_pc # "idle") =>
          bulk_response = [code |-> 503, detail |-> "Memory service not initialized"]
    /\ ~graphiti_ready => pipeline_calls = <<>> /\ in_flight = {}

\* The external calls of delete and of ingest raised and both answered 500
\* with the message.
C13_Witness ==
    /\ gw_outcome["delete_entities"] = "boom"
    /\ gw_response["delete_entities"] = [code |-> 500, detail |-> "boom"]
    /\ gw_outcome["recall"] = "returned"
    /\ ingest_pc = "done"
    /\ ingest_response = [code |-> 500, detail |-> "boom"]

----------------------------------------------------------------------------
(* Properties of the entity templates *)

\* The default salience the templates are to have.
ExpectedSalience(name) ==
    CASE name = "Fact" -> 5
      [] name = "Decision" -> 8
      [] name = "Failure" -> 9
      [] name = "Reflection" -> 9

\* C14: an instance of any of the four templates has salience in 1..10; a
\* construction with salience below 1 or above 10 ends in a validation
\* error; a salience that is not given is the default of the type (Fact 5,
\* Decision 8, Failure 9, Reflection 9); the severity of a Failure is
\* likewise in 1..10, 7 when not given.
C14_SalienceBounds ==
    /\ ent_pc = "constructed" =>
          /\ Has(ent_instance, "salience")
          /\ Val(ent_instance, "salience") \in 1..10
          /\ ~Has(ent_kwargs, "salience") =>
                Val(ent_instance, "salience") = ExpectedSalience(ent_model.name)
          /\ Has(ent_kwargs, "salience") =>
                Val(ent_instance, "salience") = Val(ent_kwargs, "salience")
          /\ ent_model.name = "Failure" =>
                /\ Val(ent_instance, "severity") \in 1..10
                /\ ~Has(ent_kwargs, "severity") => Val(ent_instance, "severity") = 7
    /\ ent_pc # "idle" =>
          ( ent_pc = "validation_error" <=>
               \E p \in ent_kwargs : p[1] \in {"salience", "severity"} /\ p[2] \notin 1..10 )

\* A Failure built with severity 10 and no salience: salience 9.
C14_Witness ==
    /\ ent_pc = "constructed"
    /\ ent_model.name = "Failure"
    /\ ent_kwargs = {<<"severity", 10>>}
    /\ ent_instance = {<<"severity", 10>>, <<"salience", 9>>}

----------------------------------------------------------------------------
(* Properties of the recall handler *)

\* The edges of the search result as recall formats them, as a set.
FormattedEdges ==
    {[uuid |-> i,
      score |-> IF i <= Len(search_result.edge_reranker_scores)
                THEN search_result.edge_reranker_scores[i] ELSE 0] :
        i \in 1..Len(search_result.edges)}

\* The formatted edges that pass the request's min_salience.
PassingEdges ==
    IF recall_min_salience.is_none THEN FormattedEdges
    ELSE {e \in FormattedEdges : ImportanceOf(e) >= recall_min_salience.value}

\* C15: recall ranks the formatted edges and then cuts to limit: it returns
\* at most limit edges, as many as pass min_salience if these are fewer,
\* each a formatted edge that passes and none twice, in descending order of
\* score with ties in the order of the search result, and every passing
\* edge that is not returned comes, in that order, after all the returned
\* ones; so none that was cut has a higher score than one that was
\* returned.
C15_RankThenTruncate ==
    recall_pc = "done" =>
        /\ Len(recall_edges) <= recall_limit
        /\ Len(recall_edges) =
              IF Cardinality(PassingEdges) < recall_limit
              THEN Cardinality(PassingEdges) ELSE recall_limit
        /\ Elems(recall_edges) \subseteq PassingEdges
        /\ Cardinality(Elems(recall_edges)) = Len(recall_edges)
        /\ \A i \in 1..Len(recall_edges) : \A j \in 1..Len(recall_edges) :
              i < j =>
                \/ recall_edges[i].score > recall_edges[j].score
                \/ /\ recall_edges[i].score = recall_edges[j].score
                   /\ recall_edges[i].uuid < recall_edges[j].uuid
        /\ \A e \in PassingEdges \ Elems(recall_edges) :
              \A r \in Elems(recall_edges) :
                 \/ e.score < r.score
                 \/ e.score = r.score /\ e.uuid > r.uuid

\* Three edges of scores 4, 0 and 7 with limit 2: the edges of scores 7
\* and 4 are returned in that order, the one of score 0 is cut.
C15_Witness ==
    /\ recall_pc = "done"
    /\ recall_limit = 2
    /\ recall_min_salience.is_none
    /\ search_result.edge_reranker_scores = <<4, 0, 7>>
    /\ recall_edges = <<[uuid |-> 3, score |-> 7], [uuid |-> 1, score |-> 4]>>

----------------------------------------------------------------------------
(* More properties of the chat-completions shim *)

\* The members of the JSON objects in the reply that set a field the
\* target schema does not declare.
UndeclaredMembers ==
    {m \in MemberTable :
        /\ m[2] \notin DeclaredFields(response_model)
        /\ \E b \in JsonIn(reply) : \E i \in 1..Len(b) : b[i] = m[1]}

\* C16: a reply whose JSON object has a field the target schema does not
\* declare makes the call fail with the validation error; no object is
\* returned from which the field was left out.
C16_NoCoercionNoDrop ==
    (ShimAnswered /\ UndeclaredMembers # {}) =>
        /\ shim_pc = "raised"
        /\ shim_error = "validation"
        /\ output_text = <<>>

\* ---------------------------------------------------------------------
\* Schema-instruction injection
\* ---------------------------------------------------------------------

SystemPositions(messages) ==
    {i \in 1..Len(messages) : Get(messages[i], "role", "") = "system"}

\* The sequence the transport is to receive: the instruction at the end of
\* the first system message, or a new leading system message when the
\* caller has none.
ExpectedInjection(messages, model) ==
    LET at == SystemPositions(messages)
    IN  IF at # {}
        THEN LET k == CHOOSE i \in at : \A j \in at : i <= j
             IN  [messages EXCEPT ![k] =
                    [role |-> "system",
                     content |-> Get(messages[k], "content", <<>>)
                                   \o schema_instruction(model)]]
        ELSE <<[role |-> "system", content |-> schema_instruction(model)]>>
                \o messages

CarriesInstruction(m, model) ==
    LET c == Get(m, "content", <<>>)
        n == Len(schema_instruction(model))
    IN  /\ Len(c) >= n
        /\ SubSeq(c, Len(c) - n + 1, Len(c)) = schema_instruction(model)

\* C17: the messages sent to the transport by a structured call are the
\* caller's messages with the schema instruction appended to the first
\* system-role message wherever it stands, or with a new system message
\* placed first when the caller has no system message; the other messages
\* go unchanged in their order and exactly one message carries the
\* instruction.
C17_InstructionInjection ==
    (shim_op = "structured" /\ transport_calls # <<>>) =>
        LET sent == transport_calls[1].messages
        IN  /\ sent = ExpectedInjection(caller_messages, response_model)
            /\ Cardinality({i \in 1..Len(sent) :
                    CarriesInstruction(sent[i], response_model)}) = 1

\* ---------------------------------------------------------------------
\* The ranker changes nothing it was given
\* ---------------------------------------------------------------------

Occurrences(seq, e) == Cardinality({i \in 1..Len(seq) : seq[i] = e})

\* C18: rank_by_salience returns a new list, leaves the caller's list with
\* the same facts in the same order and every fact with the fields it had;
\* the returned list holds only facts of the input, none more often than
\* the input holds it, and without min_salience it is a permutation of the
\* input.
C18_RankIsPure ==
    rank_pc = "done" =>
        /\ ranked_ref # 1
        /\ ranked_ref \in 1..Len(lists)
        /\ lists[1] = edges
        /\ lists[ranked_ref] = ranked
        /\ \A e \in Elems(ranked) :
              /\ e \in Elems(edges)
              /\ Occurrences(ranked, e) <= Occurrences(edges, e)
        /\ min_salience.is_none =>
              \A e \in Elems(edges) :
                  Occurrences(ranked, e) = Occurrences(edges, e)

\* A call with min_salience that dropped a fact and put the others in
\* another order than the caller's.
C18_Witness ==
    /\ rank_pc = "done"
    /\ ~min_salience.is_none
    /\ Len(edges) = 3
    /\ Len(ranked) = 2
    /\ ranked[1].uuid > ranked[2].uuid
    /\ lists[1] = edges

\* ---------------------------------------------------------------------
\* The lifecycle of the shared client
\* ---------------------------------------------------------------------

\* C19: the client is created exactly once, during startup and before any
\* handler gets it; it is closed exactly once, at shutdown and only after
\* a startup that succeeded; a handler called before the client is in
\* place answers 503 and does not get it; and when the lifespan is over
\* every client that was created has been closed.
C19_ClientLifecycle ==
    /\ clients_created <= 1
    /\ clients_closed <= 1
    /\ clients_closed = 1 => life_pc = "stopped"
    /\ life_pc = "stopped" => clients_closed = 1
    /\ life_pc \in {"serving", "stopped"} => clients_created = 1
    /\ \A h \in ReadHandlers :
          /\ h \in gw_called => graphiti_ready /\ clients_created = 1
          /\ gw_pc[h] = "rejected" => gw_response[h] = NotInitialized
          /\ ~graphiti_ready => h \notin gw_called
    /\ LifespanOver => clients_closed = clients_created

\* ---------------------------------------------------------------------
\* One transport call for each call of the client
\* ---------------------------------------------------------------------

\* C20: a call of _create_structured_completion or of _create_completion
\* makes exactly one chat-completion call, with response_format
\* json_object, and never a second one: not after a transport error and
\* not after a reply that fails parsing or validation.
C20_OneTransportCall ==
    /\ shim_pc = "idle" => transport_calls = <<>>
    /\ shim_pc \in {"awaiting", "returned", "raised"} =>
          /\ Len(transport_calls) = 1
          /\ transport_calls[1].response_format = [type |-> "json_object"]

\* A structured call whose reply failed validation, and the call has
\* ended with its one transport call.
C20_Witness ==
    /\ shim_op = "structured"
    /\ shim_pc = "raised"
    /\ shim_error = "validation"
    /\ ~reply.is_none
    /\ Len(transport_calls) = 1

\* ---------------------------------------------------------------------
\* What ingest writes is within what recall searches
\* ---------------------------------------------------------------------

\* C21: the group label under which ingest writes an episode for
\* (user_id, agent_id) is one of the group labels that recall, list
\* entities and list episodes search for the same (user_id, agent_id).
C21_IngestWithinRecallScope ==
    scope_pc = "recalled" =>
        \E i \in 1..Len(group_ids) : group_ids[i] = group_id

\* ---------------------------------------------------------------------
\* An empty reply is validated as the empty object
\* ---------------------------------------------------------------------

EmptyReply == reply.is_none \/ reply.value = <<>>

\* C22: when the content of the transport's reply is empty or absent, the
\* structured call validates the text {} in its place: for a response
\* model whose fields all have defaults it returns the object of the
\* defaults without an error, and for one with a required field it fails
\* with a validation error.
C22_EmptyReplyIsEmptyObject ==
    (ShimAnswered /\ EmptyReply) =>
        /\ content = <<"{", "}">>
        /\ response_model.required = {} =>
              /\ shim_pc = "returned"
              /\ shim_error = "none"
              /\ Len(output_text) = Len(response_model.fields) + 2
              /\ output_text[1] = "{"
              /\ output_text[Len(output_text)] = "}"
              /\ \A k \in 1..Len(response_model.fields) :
                    output_text[k + 1] =
                        LexemeOf(response_model.fields[k],
                                 Val(response_model.defaults, response_model.fields[k]))
        /\ response_model.required # {} =>
              /\ shim_pc = "raised"
              /\ shim_error = "validation"
              /\ output_text = <<>>

\* An absent reply to a call for Fact, answered with the defaults.
C22_Witness ==
    /\ reply.is_none
    /\ response_model = FactModel
    /\ shim_pc = "returned"
    /\ output_text = <<"{", "salience:5", "}">>

\* ---------------------------------------------------------------------
\* The caller's messages stay as they were
\* ---------------------------------------------------------------------

HoldsInstruction(m, model) ==
    LET c == Get(m, "content", <<>>)
        n == Len(schema_instruction(model))
    IN  \E j \in 1..Len(c) :
            j + n - 1 <= Len(c) /\ SubSeq(c, j, j + n - 1) = schema_instruction(model)

InstructionsIn(m, model) ==
    LET c == Get(m, "content", <<>>)
    IN  Cardinality({j \in 1..Len(c) : c[j] = schema_instruction(model)[1]})

\* C23: a structured call, whether it returns or fails, leaves the caller's
\* list with the same length and the same message objects in the same
\* order, each as it was; the first message of the caller's list does not
\* hold the instruction, which is only in the list sent to the transport;
\* and a repeated call with the same list sends one instruction, not two.
C23_CallerMessagesUnchanged ==
    (shim_op = "structured" /\ transport_calls # <<>>) =>
        LET current == Deref(msg_objects, msg_objects.caller)
            latest == transport_calls[Len(transport_calls)].messages
        IN  /\ msg_objects.caller = Refs(Len(caller_messages))
            /\ current = caller_messages
            /\ \A i \in 1..Len(current) : ~HoldsInstruction(current[i], response_model)
            /\ Deref(msg_objects, msg_objects.sent) = latest
            /\ msg_objects.sent # msg_objects.caller
            /\ \A k \in 1..Len(transport_calls) :
                  /\ transport_calls[k].messages = transport_calls[1].messages
                  /\ \A i \in 1..Len(transport_calls[k].messages) :
                        InstructionsIn(transport_calls[k].messages[i], response_model) <= 1

\* A second call with a list that starts with a system message, after the
\* first call failed on its reply.
C23_Witness ==
    /\ shim_op = "structured"
    /\ Len(transport_calls) = 2
    /\ shim_pc = "raised"
    /\ Len(caller_messages) = 2
    /\ caller_messages[1].role = "system"
    /\ HoldsInstruction(transport_calls[2].messages[1], response_model)

====
